---- MODULE Spec2Model ----
(***************************************************************************)
(* External-link click monitor: the capture pipeline of app/main.py        *)
(* (create_snapshot), the render client and the screenshot manager of      *)
(* app/services.py, and the audit table and its queries of app/database.py.*)
(*                                                                         *)
(* One asyncio event loop serves all requests.  create_snapshot suspends   *)
(* only inside render_click (the POST and the closing of the HTTP client); *)
(* save_screenshot is a plain blocking call and insert_snapshot is called  *)
(* without await, so everything after render_click returns runs in one     *)
(* step of the loop.                                                       *)
(***************************************************************************)
EXTENDS Integers, Sequences, FiniteSets, TLC

(***************************************************************************)
(* Bounds of the model.                                                    *)
(***************************************************************************)
NumReqs == 2            \* capture requests in flight
NumSuffix == 2          \* distinct values of str(uuid.uuid4())[:8]
MaxTicks == 1           \* clock ticks the model lets pass
TicksPerSecond == 2     \* clock resolution below the second
MaxRows == 3            \* rows of the tables the queries are run against

Reqs == 1..NumReqs
Suffixes == 1..NumSuffix

(***************************************************************************)
(* Python values that are not strings of the application.                  *)
(***************************************************************************)
Missing == "<missing>"      \* key absent from the response dict
Null == "<null>"            \* JSON null / Python None
PyNone == [type |-> "NoneType", val |-> 0]
PyCoroutine == [type |-> "coroutine", val |-> 0]

\* dict.get(key): None for an absent key
Get(v) == IF v = Missing THEN Null ELSE v
\* dict.get(key, default)
GetDefault(v, d) == IF v = Missing THEN d ELSE v

(***************************************************************************)
(* Time.  The clock counts ticks from 2024-01-01 00:00:00.                 *)
(***************************************************************************)
TicksPerDay == 24 * 60 * 60 * TicksPerSecond
StartTime == 76 * TicksPerDay - 1      \* the last tick of day 75
\* datetime.now().strftime("%Y%m%d_%H%M%S"): the second of the instant
Timestamp(t) == t \div TicksPerSecond

(***************************************************************************)
(* Requests.  Request r clicks on its own origin.                          *)
(***************************************************************************)
OriginUrls == <<"https://a.example", "https://b.example", "https://c.example", "https://d.example">>
Request(r) ==
    [origin_url |-> OriginUrls[((r - 1) % Len(OriginUrls)) + 1],
     click_type |-> "text",
     click_value |-> "download"]

(***************************************************************************)
(* Responses of the render collaborator, as the HTTP client sees them.     *)
(***************************************************************************)
Resp(tr, code, st, msg, url, hash, shot) ==
    [transport |-> tr, status_code |-> code, status |-> st, message |-> msg,
     page_url |-> url, page_hash |-> hash, screenshot_base64 |-> shot]

NoBody(tr, code) == Resp(tr, code, Missing, Missing, Missing, Missing, Missing)

FailureResponses ==
    { NoBody("timeout", 0), NoBody("connect_error", 0), NoBody("http", 500) }
    \cup { Resp("http", 200, st, msg, Missing, Missing, Missing) :
              st \in {"error", Missing}, msg \in {"click target not found", Missing} }

OkResponses(urls, hashes, shots) ==
    { Resp("http", 200, "ok", Missing, u, h, s) : u \in urls, h \in hashes, s \in shots }

\* every shape of response the render client distinguishes
AllResponses ==
    FailureResponses
    \cup { Resp("http", 200, "error", Null, Missing, Missing, Missing),
           Resp("http", 200, "error", "boom", "https://x.example", "h1", "QQ=="),
           Resp("http", 500, "ok", Missing, "https://x.example", "h1", "QQ==") }
    \cup OkResponses({Missing, Null, "https://x.example"},
                     {Missing, Null, "h1", "h2"},
                     {Missing, Null, "QQ==", "Qg==", "QQ"})

\* the responses the concurrent pipeline is run against
Responses ==
    { NoBody("timeout", 0), NoBody("connect_error", 0),
      Resp("http", 500, "ok", Missing, "https://x.example", "h1", "QQ=="),
      Resp("http", 200, "error", "click target not found", "https://x.example", "h1", "QQ==") }
    \cup { Resp("http", 200, "ok", Missing, "https://x.example", "h1", "QQ=="),
           Resp("http", 200, "ok", Missing, Missing, Missing, "Qg=="),
           Resp("http", 200, "ok", Missing, "https://x.example", Null, "QQ=="),
           Resp("http", 200, "ok", Missing, "https://x.example", "h1", "QQ"),
           Resp("http", 200, "ok", Missing, "https://x.example", "h1", Missing) }

(***************************************************************************)
(* PlaywrightService.render_click: a result or a raised exception.         *)
(***************************************************************************)
\* An exception message is the sequence of the parts of its format string.
NoError == <<>>
Raise(msg) == [raised |-> TRUE, error |-> msg, value |-> NoBody("none", 0)]
Return(v) == [raised |-> FALSE, error |-> NoError, value |-> v]

BadStatusMsg(code) == <<"Playwright Service returned error: ", ToString(code)>>
LogicalFailureMsg(m) == <<"Playwright Service failed: ", IF m = Null THEN "None" ELSE m>>
TimeoutMsg == <<"Playwright Service request timed out">>
HttpErrorMsg == <<"Playwright Service HTTP request failed">>
SubscriptMsg == <<"'NoneType' object is not subscriptable">>

\* render_click without the check of the transport status
render_click_NoHttpCheck(resp) ==
    IF resp.transport = "timeout" THEN Raise(TimeoutMsg)
    ELSE IF resp.transport = "connect_error" THEN Raise(HttpErrorMsg)
    ELSE IF Get(resp.status) # "ok"
         THEN Raise(LogicalFailureMsg(GetDefault(resp.message, "Unknown error")))
    ELSE IF GetDefault(resp.page_hash, "") = Null THEN Raise(SubscriptMsg)
    ELSE Return(resp)

\* render_click without the check of the status field
render_click_NoStatusCheck(resp) ==
    IF resp.transport = "timeout" THEN Raise(TimeoutMsg)
    ELSE IF resp.transport = "connect_error" THEN Raise(HttpErrorMsg)
    ELSE IF resp.status_code # 200 THEN Raise(BadStatusMsg(resp.status_code))
    ELSE IF GetDefault(resp.page_hash, "") = Null THEN Raise(SubscriptMsg)
    ELSE Return(resp)

render_click(resp) ==
    IF resp.transport = "timeout" THEN Raise(TimeoutMsg)
    ELSE IF resp.transport = "connect_error" THEN Raise(HttpErrorMsg)
    ELSE IF resp.status_code # 200 THEN Raise(BadStatusMsg(resp.status_code))
    ELSE IF Get(resp.status) # "ok"
         THEN Raise(LogicalFailureMsg(GetDefault(resp.message, "Unknown error")))
    \* the debug line slices result.get('page_hash', ''): None[:16] raises
    ELSE IF GetDefault(resp.page_hash, "") = Null THEN Raise(SubscriptMsg)
    ELSE Return(resp)

(***************************************************************************)
(* base64.b64decode: bytes, or the error it raises.                        *)
(***************************************************************************)
NoneTypeMsg == <<"argument should be a bytes-like object or ASCII string, not 'NoneType'">>
PaddingMsg == <<"Incorrect padding">>
B64Decode(s) ==
    IF s = Null THEN [err |-> NoneTypeMsg, bytes |-> ""]
    ELSE IF s = "QQ==" THEN [err |-> NoError, bytes |-> "A"]
    ELSE IF s = "Qg==" THEN [err |-> NoError, bytes |-> "B"]
    ELSE IF s = "" THEN [err |-> NoError, bytes |-> ""]
    ELSE [err |-> PaddingMsg, bytes |-> ""]

(***************************************************************************)
(* The artifact store: a function from the names of existing files to      *)
(* their content.  A name is <<timestamp, suffix>>.                        *)
(***************************************************************************)
NoPath == <<>>
WriteFile(fs, name, bytes) ==
    [n \in (DOMAIN fs) \cup {name} |-> IF n = name THEN bytes ELSE fs[n]]

IoOutcomes == {"ok", "open_fail", "write_fail"}
OpenFailMsg == <<"[Errno 13] Permission denied">>
WriteFailMsg == <<"[Errno 28] No space left on device">>

\* save_screenshot opening the file before it decodes the payload
save_screenshot_OpenFirst(fs, screenshot_base64, t, sfx, io) ==
    LET filepath == <<Timestamp(t), sfx>>
        data == B64Decode(screenshot_base64)
    IN  IF io = "open_fail"
        THEN [fs |-> fs, raised |-> TRUE, error |-> OpenFailMsg, path |-> NoPath]
        ELSE IF data.err # NoError
        THEN [fs |-> WriteFile(fs, filepath, ""), raised |-> TRUE,
              error |-> data.err, path |-> NoPath]
        ELSE IF io = "write_fail"
        THEN [fs |-> WriteFile(fs, filepath, ""), raised |-> TRUE,
              error |-> WriteFailMsg, path |-> NoPath]
        ELSE [fs |-> WriteFile(fs, filepath, data.bytes), raised |-> FALSE,
              error |-> NoError, path |-> filepath]

\* ScreenshotManager.save_screenshot at instant t, with uuid suffix sfx and
\* the outcome io of the file system calls
save_screenshot(fs, screenshot_base64, t, sfx, io) ==
    LET filepath == <<Timestamp(t), sfx>>
        data == B64Decode(screenshot_base64)
    IN  IF data.err # NoError
        THEN [fs |-> fs, raised |-> TRUE, error |-> data.err, path |-> NoPath]
        ELSE IF io = "open_fail"
        THEN [fs |-> fs, raised |-> TRUE, error |-> OpenFailMsg, path |-> NoPath]
        \* open(filepath, 'wb') has created or truncated the file
        ELSE IF io = "write_fail"
        THEN [fs |-> WriteFile(fs, filepath, ""), raised |-> TRUE,
              error |-> WriteFailMsg, path |-> NoPath]
        ELSE [fs |-> WriteFile(fs, filepath, data.bytes), raised |-> FALSE,
              error |-> NoError, path |-> filepath]

(***************************************************************************)
(* The audit table external_link_snapshot, in insertion order.             *)
(***************************************************************************)
Row(id, origin, ctype, cvalue, url, hash, path, t) ==
    [id |-> id, origin_url |-> origin, click_type |-> ctype, click_value |-> cvalue,
     page_url |-> url, page_hash |-> hash, screenshot_path |-> path, created_at |-> t]

\* the body of Database.insert_snapshot, run when the coroutine is awaited:
\* INSERT ... RETURNING id at instant t (id BIGSERIAL, created_at DEFAULT
\* NOW()); the cursor is never fetched and the function has no return
insert_snapshot(log, request, page_url, page_hash, path, t) ==
    [log |-> Append(log, Row(Len(log) + 1, request.origin_url, request.click_type,
                             request.click_value, page_url, page_hash, path, t)),
     ret |-> PyNone]

\* CreateSnapshotResponse(snapshot_id=..., status="ok"): snapshot_id: int
ValidationMsg == <<"1 validation error for CreateSnapshotResponse: snapshot_id">>
\* a response model that accepts any snapshot_id
CreateSnapshotResponse_Unvalidated(snapshot_id) ==
    [raised |-> FALSE, error |-> NoError, snapshot_id |-> snapshot_id.val]

CreateSnapshotResponse(snapshot_id) ==
    IF snapshot_id.type = "int"
    THEN [raised |-> FALSE, error |-> NoError, snapshot_id |-> snapshot_id.val]
    ELSE [raised |-> TRUE, error |-> ValidationMsg, snapshot_id |-> 0]

Http200(id) == [code |-> 200, snapshot_id |-> id, status |-> "ok", detail |-> NoError]
\* a handler that swallows the exception and sends nothing
Http500_Silent(msg) == [code |-> 0, snapshot_id |-> 0, status |-> "", detail |-> NoError]
Http500(msg) == [code |-> 500, snapshot_id |-> 0, status |-> "", detail |-> msg]
NoResponse == [code |-> 0, snapshot_id |-> 0, status |-> "", detail |-> NoError]

(***************************************************************************)
(* create_snapshot from the return of render_click to the response         *)
(* (main.py lines 129-174).  res is what render_click returned or raised.  *)
(***************************************************************************)
\* calls: the downstream calls this part of the handler issued, in order
Locals(fs, log, path, sid, response, calls) ==
    [fs |-> fs, log |-> log, screenshot_path |-> path, snapshot_id |-> sid,
     response |-> response, calls |-> calls]

\* create_snapshot going on to the insert after save_screenshot raised
create_snapshot_IgnoreStoreFailure(fs, log, request, res, t, sfx, io) ==
    IF res.raised
    THEN Locals(fs, log, NoPath, PyNone, Http500(res.error), <<>>)
    ELSE LET saved == save_screenshot(fs, Get(res.value.screenshot_base64), t, sfx, io)
             snapshot_id == PyCoroutine
             response == CreateSnapshotResponse(snapshot_id)
         IN  IF response.raised
             THEN Locals(saved.fs, log, saved.path, snapshot_id,
                         Http500(response.error), <<"save">>)
             ELSE Locals(saved.fs, log, saved.path, snapshot_id,
                         Http200(response.snapshot_id), <<"save">>)

\* create_snapshot removing the screenshot when a later step fails
create_snapshot_RollsBack(fs, log, request, res, t, sfx, io) ==
    IF res.raised
    THEN Locals(fs, log, NoPath, PyNone, Http500(res.error), <<>>)
    ELSE LET saved == save_screenshot(fs, Get(res.value.screenshot_base64), t, sfx, io)
         IN  IF saved.raised
             THEN Locals(saved.fs, log, NoPath, PyNone, Http500(saved.error), <<"save">>)
             ELSE LET snapshot_id == PyCoroutine
                      response == CreateSnapshotResponse(snapshot_id)
                  IN  IF response.raised
                      THEN Locals([n \in (DOMAIN saved.fs) \ {saved.path} |-> saved.fs[n]],
                                  log, saved.path, snapshot_id,
                                  Http500(response.error), <<"save">>)
                      ELSE Locals(saved.fs, log, saved.path, snapshot_id,
                                  Http200(response.snapshot_id), <<"save">>)

create_snapshot(fs, log, request, res, t, sfx, io) ==
    IF res.raised
    THEN Locals(fs, log, NoPath, PyNone, Http500(res.error), <<>>)
    ELSE LET saved == save_screenshot(fs, Get(res.value.screenshot_base64), t, sfx, io)
         IN  IF saved.raised
             THEN Locals(saved.fs, log, NoPath, PyNone, Http500(saved.error), <<"save">>)
             ELSE \* db.insert_snapshot(...) without await: a coroutine
                  \* object whose body never runs
                  LET snapshot_id == PyCoroutine
                      response == CreateSnapshotResponse(snapshot_id)
                  IN  IF response.raised
                      THEN Locals(saved.fs, log, saved.path, snapshot_id,
                                  Http500(response.error), <<"save">>)
                      ELSE Locals(saved.fs, log, saved.path, snapshot_id,
                                  Http200(response.snapshot_id), <<"save">>)

(***************************************************************************)
(* Calendar arithmetic of the queries (PostgreSQL date and interval).      *)
(* Dates are day numbers counted from 2024-01-01.                          *)
(***************************************************************************)
IsLeap(y) == (y % 4 = 0 /\ y % 100 # 0) \/ y % 400 = 0
DaysInYear(y) == IF IsLeap(y) THEN 366 ELSE 365
DaysInMonth(y, m) ==
    IF m \in {4, 6, 9, 11} THEN 30
    ELSE IF m = 2 THEN (IF IsLeap(y) THEN 29 ELSE 28)
    ELSE 31

RECURSIVE DaysBeforeYear(_)
DaysBeforeYear(y) ==
    IF y <= 2024 THEN 0 ELSE DaysBeforeYear(y - 1) + DaysInYear(y - 1)

RECURSIVE DaysBeforeMonth(_, _)
DaysBeforeMonth(y, m) ==
    IF m <= 1 THEN 0 ELSE DaysBeforeMonth(y, m - 1) + DaysInMonth(y, m - 1)

ValidDate(y, m, d) ==
    y >= 2024 /\ m \in 1..12 /\ d >= 1 /\ d <= DaysInMonth(y, m)
\* make_date(y, m, d) and 'YYYY-MM-DD'::date
make_date(y, m, d) == DaysBeforeYear(y) + DaysBeforeMonth(y, m) + d - 1
\* make_date(y, m, 1) + INTERVAL '1 month'
FirstOfNextMonth(y, m) == IF m = 12 THEN make_date(y + 1, 1, 1) ELSE make_date(y, m + 1, 1)
\* a date as a timestamp: midnight
Midnight(day) == day * TicksPerDay
\* date_trunc('day', t)
DateTrunc(t) == Midnight(t \div TicksPerDay)
RollupDays == 60

(***************************************************************************)
(* ORDER BY: every arrangement of the selected rows that respects the      *)
(* sort keys; rows equal on all keys come in any order.                    *)
(***************************************************************************)
UrlRank(u) == CHOOSE i \in 1..Len(OriginUrls) : OriginUrls[i] = u
Arrangements(S) ==
    { f \in [1..Cardinality(S) -> S] : \A i, j \in 1..Cardinality(S) : i # j => f[i] # f[j] }
ByCreatedAt(a, b) == a.created_at < b.created_at
ByOriginThenCreatedAt(a, b) ==
    \/ UrlRank(a.origin_url) < UrlRank(b.origin_url)
    \/ a.origin_url = b.origin_url /\ a.created_at < b.created_at
ByDayThenOrigin(a, b) ==
    \/ a.day < b.day
    \/ a.day = b.day /\ UrlRank(a.origin_url) < UrlRank(b.origin_url)
\* a sorts strictly before b under the ORDER BY clause named by order
Before(order, a, b) ==
    IF order = "created_at" THEN ByCreatedAt(a, b)
    ELSE IF order = "origin_url, created_at" THEN ByOriginThenCreatedAt(a, b)
    ELSE ByDayThenOrigin(a, b)
\* a database that ignores the ORDER BY clause
OrderBy_Unsorted(S, order) == Arrangements(S)
OrderBy(S, order) ==
    { f \in Arrangements(S) :
        \A i, j \in 1..Cardinality(S) : i < j => ~Before(order, f[j], f[i]) }

RowsOf(log) == { log[i] : i \in DOMAIN log }

(***************************************************************************)
(* The five queries of Database: the set of result lists each may return.  *)
(***************************************************************************)
\* COUNT(DISTINCT page_hash) counting NULL as a value
get_daily_stats_last_60_days_CountingNull(log, t) ==
    LET sel == { r \in RowsOf(log) : r.created_at >= t - RollupDays * TicksPerDay }
        keys == { <<DateTrunc(r.created_at), r.origin_url>> : r \in sel }
        group(k) == { r \in sel : DateTrunc(r.created_at) = k[1] /\ r.origin_url = k[2] }
        stats == { [day |-> k[1], origin_url |-> k[2],
                    total_events |-> Cardinality({ r.id : r \in group(k) }),
                    unique_pages |-> Cardinality({ r.page_hash : r \in group(k) })]
                   : k \in keys }
    IN  OrderBy(stats, "day, origin_url")

get_daily_stats_last_60_days(log, t) ==
    LET sel == { r \in RowsOf(log) : r.created_at >= t - RollupDays * TicksPerDay }
        keys == { <<DateTrunc(r.created_at), r.origin_url>> : r \in sel }
        group(k) == { r \in sel : DateTrunc(r.created_at) = k[1] /\ r.origin_url = k[2] }
        stats == { [day |-> k[1], origin_url |-> k[2],
                    total_events |-> Cardinality({ r.id : r \in group(k) }),
                    unique_pages |-> Cardinality({ r.page_hash : r \in group(k) } \ {Null})]
                   : k \in keys }
    IN  OrderBy(stats, "day, origin_url")

get_yesterday_events(log, t) ==
    OrderBy({ r \in RowsOf(log) : /\ r.created_at >= DateTrunc(t - TicksPerDay)
                                  /\ r.created_at < DateTrunc(t) },
            "created_at")

\* the day query with the window closed at the next midnight
get_events_by_day_Closed(log, day) ==
    OrderBy({ r \in RowsOf(log) : /\ r.created_at >= Midnight(day)
                                  /\ r.created_at <= Midnight(day + 1) },
            "origin_url, created_at")

get_events_by_day(log, day) ==
    OrderBy({ r \in RowsOf(log) : /\ r.created_at >= Midnight(day)
                                  /\ r.created_at < Midnight(day + 1) },
            "origin_url, created_at")

get_events_by_month(log, year, month) ==
    OrderBy({ r \in RowsOf(log) : /\ r.created_at >= Midnight(make_date(year, month, 1))
                                  /\ r.created_at < Midnight(FirstOfNextMonth(year, month)) },
            "origin_url, created_at")

\* the range query with the window open at its end
get_events_by_range_HalfOpen(log, start_time, end_time) ==
    OrderBy({ r \in RowsOf(log) : /\ r.created_at >= start_time
                                  /\ r.created_at < end_time },
            "origin_url, created_at")

get_events_by_range(log, start_time, end_time) ==
    OrderBy({ r \in RowsOf(log) : /\ r.created_at >= start_time
                                  /\ r.created_at <= end_time },
            "origin_url, created_at")

(***************************************************************************)
(* State.                                                                  *)
(***************************************************************************)
VARIABLES
    now,                \* the clock, in ticks
    files,              \* the screenshot directory: name -> content
    rows,               \* the audit table, in insertion order
    pc,                 \* per request: "idle", "render", "rendered", "done"
    resp,               \* per request: the collaborator's response
    playwright_result,  \* per request: what render_click returned or raised
    screenshot_path,    \* per request: local of create_snapshot
    snapshot_id,        \* per request: local of create_snapshot
    outcome,            \* per request: the HTTP response sent to the caller
    calls,              \* per request: the downstream calls issued, in order
    queryResult,        \* the response of the latest query endpoint call
    caller,             \* a caller of pool.connection(): "idle", "waiting", "held"
    waited,             \* the seconds that caller has waited for a connection
    others              \* the connections the other callers have borrowed

poolVars == <<caller, waited, others>>
vars == <<now, files, rows, pc, resp, playwright_result, screenshot_path,
          snapshot_id, outcome, calls, queryResult, poolVars>>
captureVars == <<pc, resp, playwright_result, screenshot_path, snapshot_id, outcome,
                 calls>>

(***************************************************************************)
(* The table and the directory outlive the process (CREATE TABLE IF NOT    *)
(* EXISTS, makedirs(exist_ok=True)): the process starts on a store that    *)
(* already holds rows and their screenshots, or on an empty one.           *)
(***************************************************************************)
SeedPath(t) == <<Timestamp(t), 1>>
SeedRow(id, origin, url, hash, t) ==
    Row(id, origin, "text", "download", url, hash, SeedPath(t), t)
SeedLog ==
    << SeedRow(1, OriginUrls[2], "https://x.example", "h1", Midnight(10) + 7),
       SeedRow(2, OriginUrls[2], "https://x.example", "h1", Midnight(74) + 5),
       SeedRow(3, OriginUrls[1], Null, Null, Midnight(75)) >>
SeedFiles == [n \in { r.screenshot_path : r \in RowsOf(SeedLog) } |-> "A"]
NoFiles == [n \in {} |-> ""]

\* a call of a query endpoint: its name and arguments; NOW() is an argument
\* of the two queries that read the clock
Call(name, args) == [name |-> name, args |-> args]
NoQuery == [query |-> Call("none", <<>>), code |-> 0, result |-> <<>>]
QueryOk(q, res) == [query |-> q, code |-> 200, result |-> res]
QueryFailed(q) == [query |-> q, code |-> 500, result |-> <<>>]

InitCapture ==
    /\ now = StartTime
    /\ pc = [r \in Reqs |-> "idle"]
    /\ resp = [r \in Reqs |-> NoBody("none", 0)]
    /\ playwright_result = [r \in Reqs |-> Raise(NoError)]
    /\ screenshot_path = [r \in Reqs |-> NoPath]
    /\ snapshot_id = [r \in Reqs |-> PyNone]
    /\ outcome = [r \in Reqs |-> NoResponse]
    /\ calls = [r \in Reqs |-> <<>>]
    /\ queryResult = NoQuery
    /\ caller = "idle"
    /\ waited = 0
    /\ others = 0

Init ==
    /\ InitCapture
    /\ rows = SeedLog
    /\ files = SeedFiles

\* the stores the queries are run against
InitQuery ==
    /\ InitCapture
    /\ \E seeded \in BOOLEAN :
          /\ rows = (IF seeded THEN SeedLog ELSE <<>>)
          /\ files = (IF seeded THEN SeedFiles ELSE NoFiles)

(***************************************************************************)
(* POST /api/external-link-snapshot.                                       *)
(***************************************************************************)
\* the handler starts and render_click sends its POST (main.py 118-127,
\* services.py 64-69)
PostSnapshot(r) ==
    /\ pc[r] = "idle"
    /\ pc' = [pc EXCEPT ![r] = "render"]
    /\ calls' = [calls EXCEPT ![r] = Append(@, "render")]
    /\ UNCHANGED <<now, files, rows, resp, playwright_result, screenshot_path,
                   snapshot_id, outcome, queryResult, poolVars>>

\* the POST completes or times out; render_click examines the response
\* and leaves the async with block (services.py 70-101)
\* a handler that starts over when render_click raises
RenderReturns_Retry(r) ==
    /\ pc[r] = "render"
    /\ \E rs \in Responses :
          /\ resp' = [resp EXCEPT ![r] = rs]
          /\ playwright_result' = [playwright_result EXCEPT ![r] = render_click(rs)]
          /\ pc' = [pc EXCEPT ![r] = IF render_click(rs).raised /\ Len(calls[r]) < 2
                                     THEN "idle" ELSE "rendered"]
    /\ UNCHANGED <<now, files, rows, screenshot_path, snapshot_id, outcome, calls,
                   queryResult, poolVars>>

RenderReturns(r) ==
    /\ pc[r] = "render"
    /\ \E rs \in Responses :
          /\ resp' = [resp EXCEPT ![r] = rs]
          /\ playwright_result' = [playwright_result EXCEPT ![r] = render_click(rs)]
    /\ pc' = [pc EXCEPT ![r] = "rendered"]
    /\ UNCHANGED <<now, files, rows, screenshot_path, snapshot_id, outcome, calls,
                   queryResult, poolVars>>

\* the rest of the handler, without suspension (main.py 129-174)
HandlerBody(r) ==
    /\ \E sfx \in Suffixes, io \in IoOutcomes :
          LET done == create_snapshot(files, rows, Request(r), playwright_result[r],
                                      now, sfx, io)
          IN  /\ files' = done.fs
              /\ rows' = done.log
              /\ screenshot_path' = [screenshot_path EXCEPT ![r] = done.screenshot_path]
              /\ snapshot_id' = [snapshot_id EXCEPT ![r] = done.snapshot_id]
              /\ outcome' = [outcome EXCEPT ![r] = done.response]
              /\ calls' = [calls EXCEPT ![r] = @ \o done.calls]
    /\ pc' = [pc EXCEPT ![r] = "done"]
    /\ UNCHANGED <<now, resp, playwright_result, queryResult, poolVars>>

CompleteSnapshot(r) == pc[r] = "rendered" /\ HandlerBody(r)

Tick ==
    /\ now < StartTime + MaxTicks
    /\ now' = now + 1
    /\ UNCHANGED <<files, rows, captureVars, queryResult, poolVars>>

(***************************************************************************)
(* The query endpoints.  A query fails when the pool gives no connection   *)
(* or the statement is rejected; the handler answers 500.                  *)
(***************************************************************************)
QueryDates == { <<2024, 3, 15>>, <<2024, 3, 16>>, <<2024, 2, 30>> }
QueryMonths == { <<2024, 1>>, <<2024, 3>>, <<2024, 13>> }
QueryInstants == { Midnight(74) + 5, Midnight(75), Midnight(76) }

\* a query that removes the rows of the table while answering
Answer_Purging(q, results) ==
    /\ \/ \E res \in results : queryResult' = QueryOk(q, res)
       \/ queryResult' = QueryFailed(q)
    /\ rows' = <<>>
    /\ UNCHANGED <<now, files, captureVars, poolVars>>

Answer(q, results) ==
    /\ \/ \E res \in results : queryResult' = QueryOk(q, res)
       \/ queryResult' = QueryFailed(q)
    /\ UNCHANGED <<now, files, rows, captureVars, poolVars>>

DailyStatsEndpoint ==
    Answer(Call("daily_stats", <<now>>), get_daily_stats_last_60_days(rows, now))

YesterdayEndpoint ==
    Answer(Call("yesterday", <<now>>), get_yesterday_events(rows, now))

DayEndpoint ==
    \E d \in QueryDates :
        IF ValidDate(d[1], d[2], d[3])
        THEN Answer(Call("day", d), get_events_by_day(rows, make_date(d[1], d[2], d[3])))
        ELSE Answer(Call("day", d), {})

MonthEndpoint ==
    \E ym \in QueryMonths :
        IF ValidDate(ym[1], ym[2], 1)
        THEN Answer(Call("month", ym), get_events_by_month(rows, ym[1], ym[2]))
        ELSE Answer(Call("month", ym), {})

RangeEndpoint ==
    \E s \in QueryInstants, e \in QueryInstants :
        Answer(Call("range", <<s, e>>), get_events_by_range(rows, s, e))

(***************************************************************************)
(* Spec: any number of capture requests served concurrently by the loop.   *)
(***************************************************************************)
Next ==
    \/ \E r \in Reqs : PostSnapshot(r)
    \/ \E r \in Reqs : RenderReturns(r)
    \/ \E r \in Reqs : CompleteSnapshot(r)
    \/ Tick

Spec == Init /\ [][Next]_vars

(***************************************************************************)
(* SpecOne: one capture request against every shape of response.           *)
(***************************************************************************)
RenderReturnsAny(r) ==
    /\ pc[r] = "render"
    /\ \E rs \in AllResponses :
          /\ resp' = [resp EXCEPT ![r] = rs]
          /\ playwright_result' = [playwright_result EXCEPT ![r] = render_click(rs)]
    /\ pc' = [pc EXCEPT ![r] = "rendered"]
    /\ UNCHANGED <<now, files, rows, screenshot_path, snapshot_id, outcome, calls,
                   queryResult, poolVars>>

NextOne ==
    \/ PostSnapshot(1)
    \/ RenderReturnsAny(1)
    \/ CompleteSnapshot(1)
    \/ Tick

SpecOne == Init /\ [][NextOne]_vars

(***************************************************************************)
(* SpecLive: one capture request against every shape of response, given    *)
(* that every downstream call returns or fails: the POST of render_click   *)
(* ends with a response, a connection error or the timeout of the client   *)
(* (timeout = 120.0), and the handler, once resumed, runs to its           *)
(* return or to its except clause.                                         *)
(***************************************************************************)
SpecLive ==
    /\ Init
    /\ [][NextOne]_vars
    /\ WF_vars(RenderReturnsAny(1))
    /\ WF_vars(CompleteSnapshot(1))

(***************************************************************************)
(* SpecQuery: the query endpoints, served next to one capture request.     *)
(***************************************************************************)
NextQuery ==
    \/ PostSnapshot(1)
    \/ RenderReturns(1)
    \/ CompleteSnapshot(1)
    \/ Tick
    \/ DailyStatsEndpoint
    \/ YesterdayEndpoint
    \/ DayEndpoint
    \/ MonthEndpoint
    \/ RangeEndpoint

SpecQuery == InitQuery /\ [][NextQuery]_vars

(***************************************************************************)
(* SpecLoop: the captures on the event loop.  The handlers are coroutines  *)
(* of one thread: a handler gives the thread up only at an await.  The     *)
(* await of render_click suspends the handler for the time of the POST;    *)
(* save_screenshot is an ordinary function, so from its call to its return *)
(* (base64 decoding, open, write) the handler keeps the thread, and        *)
(* insert_snapshot is not awaited.  pc "saving": inside save_screenshot.   *)
(***************************************************************************)
LoopFree == \A r \in Reqs : pc[r] # "saving"

LoopPost(r) == LoopFree /\ PostSnapshot(r)

LoopRenderReturns(r) == LoopFree /\ RenderReturns(r)

\* render_click raised: the except clause answers (main.py 165-174)
FailAfterRender(r) ==
    /\ LoopFree
    /\ playwright_result[r].raised
    /\ CompleteSnapshot(r)

\* render_click returned: the handler runs on into save_screenshot
\* (main.py 129-138, services.py 128-143)
BeginSave(r) ==
    /\ LoopFree
    /\ pc[r] = "rendered"
    /\ ~playwright_result[r].raised
    /\ pc' = [pc EXCEPT ![r] = "saving"]
    /\ UNCHANGED <<now, files, rows, resp, playwright_result, screenshot_path,
                   snapshot_id, outcome, calls, queryResult, poolVars>>

\* the file system calls return and the handler runs to its response
\* (services.py 143-151, main.py 139-174)
FinishSave(r) == pc[r] = "saving" /\ HandlerBody(r)

LoopStep(r) ==
    \/ LoopPost(r)
    \/ LoopRenderReturns(r)
    \/ FailAfterRender(r)
    \/ BeginSave(r)
    \/ FinishSave(r)

NextLoop ==
    \/ \E r \in Reqs : LoopPost(r)
    \/ \E r \in Reqs : LoopRenderReturns(r)
    \/ \E r \in Reqs : FailAfterRender(r)
    \/ \E r \in Reqs : BeginSave(r)
    \/ \E r \in Reqs : FinishSave(r)
    \/ Tick

SpecLoop == Init /\ [][NextLoop]_vars

(***************************************************************************)
(* SpecPool: the connection pool.  Database.connect creates one            *)
(* AsyncConnectionPool(max_size=DB_POOL_MAX_SIZE, timeout=60) and every    *)
(* query runs inside "async with self.pool.connection()".  One caller (a   *)
(* rollup query) is followed; the other callers of the process are counted *)
(* by the connections they hold.  waited counts the seconds the caller has *)
(* been waiting for a connection.                                          *)
(***************************************************************************)
DB_POOL_MAX_SIZE == 10
PoolTimeout == 60
\* the connections lent out
Borrowed == others + (IF caller = "held" THEN 1 ELSE 0)

\* a pool without max_size
CanBorrow_Unbounded(n) == TRUE
\* the pool lends a connection while fewer than max_size are lent
CanBorrow(n) == n < DB_POOL_MAX_SIZE

\* another caller enters pool.connection() and is given a connection
OtherBorrows ==
    /\ CanBorrow(Borrowed)
    /\ others' = others + 1
    /\ UNCHANGED <<now, files, rows, captureVars, queryResult, caller, waited>>

\* another caller leaves its async with block
OtherReturns ==
    /\ caller # "waiting"
    /\ others > 0
    /\ others' = others - 1
    /\ UNCHANGED <<now, files, rows, captureVars, queryResult, caller, waited>>

\* the caller enters pool.connection() (database.py 141)
Acquire ==
    /\ caller = "idle"
    /\ caller' = (IF CanBorrow(Borrowed) THEN "held" ELSE "waiting")
    /\ waited' = 0
    /\ UNCHANGED <<now, files, rows, captureVars, queryResult, others>>

\* a connection another caller returns is handed to the waiting caller
HandOver ==
    /\ caller = "waiting"
    /\ others > 0
    /\ others' = others - 1
    /\ caller' = "held"
    /\ waited' = 0
    /\ UNCHANGED <<now, files, rows, captureVars, queryResult>>

SecondPasses ==
    /\ caller = "waiting"
    /\ waited < PoolTimeout
    /\ waited' = waited + 1
    /\ UNCHANGED <<now, files, rows, captureVars, queryResult, caller, others>>

\* pool.connection() raises PoolTimeout; the endpoint answers 500
PoolTimeoutFires ==
    /\ caller = "waiting"
    /\ waited = PoolTimeout
    /\ caller' = "idle"
    /\ waited' = 0
    /\ queryResult' = QueryFailed(Call("daily_stats", <<now>>))
    /\ UNCHANGED <<now, files, rows, captureVars, others>>

\* the query runs on the connection and returns or raises; the async with
\* block gives the connection back either way (database.py 141-144)
RunQuery ==
    /\ caller = "held"
    /\ caller' = "idle"
    /\ \/ \E res \in get_daily_stats_last_60_days(rows, now) :
             queryResult' = QueryOk(Call("daily_stats", <<now>>), res)
       \/ queryResult' = QueryFailed(Call("daily_stats", <<now>>))
    /\ UNCHANGED <<now, files, rows, captureVars, waited, others>>

NextPool ==
    \/ OtherBorrows
    \/ OtherReturns
    \/ Acquire
    \/ HandOver
    \/ SecondPasses
    \/ PoolTimeoutFires
    \/ RunQuery

\* time passes, and the pool's timer fires when its time has come
SpecPool ==
    /\ Init
    /\ [][NextPool]_vars
    /\ WF_vars(SecondPasses)
    /\ WF_vars(PoolTimeoutFires)

(***************************************************************************)
(* SpecLog: the query endpoints against every table of at most MaxRows     *)
(* rows drawn from RowPool.  The rows lie on both sides of the bounds of   *)
(* every window the queries compute: the start and the end of a day, of a *)
(* month, of the 60-day window, and the instant of the query itself.       *)
(***************************************************************************)
PoolRow(t, origin, hash) == [t |-> t, origin |-> origin, hash |-> hash]
RowPool ==
    << PoolRow(StartTime - RollupDays * TicksPerDay - 1, 1, "h1"),
       PoolRow(StartTime - RollupDays * TicksPerDay, 2, "h1"),
       PoolRow(Midnight(60), 2, "h1"),
       PoolRow(Midnight(74) - 1, 1, "h1"),
       PoolRow(Midnight(74), 2, "h1"),
       PoolRow(Midnight(74), 2, "h2"),
       PoolRow(Midnight(74) + 5, 1, Null),
       PoolRow(Midnight(74) + 5, 2, "h1"),
       PoolRow(Midnight(75) - 1, 2, Null),
       PoolRow(Midnight(75), 1, "h1"),
       PoolRow(Midnight(75), 1, "h1"),
       PoolRow(StartTime, 2, "h2") >>

\* the i-th smallest element of a set of numbers
Nth(S, i) == CHOOSE x \in S : Cardinality({ y \in S : y < x }) = i - 1
\* the table holding the rows of the pool picked by S, ids in pool order
LogOf(S) ==
    [i \in 1..Cardinality(S) |->
        LET k == Nth(S, i)
        IN  Row(i, OriginUrls[RowPool[k].origin], "text", "download",
                IF RowPool[k].hash = Null THEN Null ELSE "https://x.example",
                RowPool[k].hash, <<Timestamp(RowPool[k].t), k>>, RowPool[k].t)]
QueryLogs == { LogOf(S) : S \in { T \in SUBSET (1..Len(RowPool)) : Cardinality(T) <= MaxRows } }

InitLog ==
    /\ InitCapture
    /\ rows \in QueryLogs
    /\ files = [n \in { r.screenshot_path : r \in RowsOf(rows) } |-> "A"]

NextLog ==
    \/ Tick
    \/ DailyStatsEndpoint
    \/ YesterdayEndpoint
    \/ DayEndpoint
    \/ MonthEndpoint
    \/ RangeEndpoint

SpecLog == InitLog /\ [][NextLog]_vars

(***************************************************************************)
(* Properties.                                                             *)
(***************************************************************************)
\* the render call failed: timeout, connection error, non-200 status, or a
\* status field other than ok
RenderFailed(rs) ==
    rs.transport # "http" \/ rs.status_code # 200 \/ Get(rs.status) # "ok"
Answered(r) == pc[r] \in {"rendered", "done"}
\* request r completes in this step
Completes(r) == pc[r] = "rendered" /\ pc'[r] = "done"
\* render_click returned and save_screenshot returned a path
RenderedAndSaved(r) ==
    pc[r] = "done" /\ ~playwright_result[r].raised /\ screenshot_path[r] # NoPath
RowOfRequest(row, r) ==
    /\ row.origin_url = Request(r).origin_url
    /\ row.click_type = Request(r).click_type
    /\ row.click_value = Request(r).click_value
    /\ row.page_url = Get(resp[r].page_url)
    /\ row.page_hash = Get(resp[r].page_hash)
    /\ row.screenshot_path = screenshot_path[r]

\* C1: a request whose render call and artifact write succeed is answered
\* {snapshot_id, status ok}, and the table holds a row of that request whose
\* id is snapshot_id.
C1_SuccessInsertsRow ==
    \A r \in Reqs :
        RenderedAndSaved(r) =>
            /\ outcome[r].code = 200
            /\ outcome[r].status = "ok"
            /\ Cardinality({ i \in DOMAIN rows : /\ rows[i].id = outcome[r].snapshot_id
                                                 /\ RowOfRequest(rows[i], r) }) = 1

\* No capture request is ever answered with success, and none adds a row:
\* the state a successful createSnapshot would be in is unreachable.
CaptureNeverSucceeds ==
    /\ \A r \in Reqs : outcome[r].code # 200
    /\ rows = SeedLog

\* C4: when the render call of a request fails, the request is answered
\* with an error and no step of it changes the table or the directory.
C4_RenderFailureChangesNothing ==
    [][\A r \in Reqs :
          /\ (pc[r] # pc'[r] /\ ~Completes(r)) => (files' = files /\ rows' = rows)
          /\ (Completes(r) /\ RenderFailed(resp[r])) =>
                /\ files' = files /\ rows' = rows
                /\ screenshot_path'[r] = NoPath
                /\ snapshot_id'[r] = PyNone
                /\ outcome'[r].code = 500
                /\ outcome'[r].detail = playwright_result[r].error
                /\ outcome'[r].detail # NoError]_vars

C4_Witness ==
    \E r \in Reqs :
        /\ pc[r] = "done" /\ outcome[r].code = 500
        /\ resp[r].status_code = 200 /\ resp[r].status = "error"
        /\ \E q \in Reqs : q # r /\ RenderedAndSaved(q)

\* the errors save_screenshot raises
StoreFailureMsgs == {NoneTypeMsg, PaddingMsg, OpenFailMsg, WriteFailMsg}

\* C5: when the artifact write fails after a successful render call, the
\* request is answered with the error of the write, insert_snapshot is not
\* called and the table is unchanged.
C5_StoreFailureCreatesNoRow ==
    [][\A r \in Reqs :
          (Completes(r) /\ ~playwright_result[r].raised /\ screenshot_path'[r] = NoPath) =>
                /\ outcome'[r].code = 500
                /\ outcome'[r].detail \in StoreFailureMsgs
                /\ snapshot_id'[r] = PyNone
                /\ rows' = rows]_vars

C5_Witness ==
    \E r \in Reqs :
        /\ pc[r] = "done" /\ ~playwright_result[r].raised
        /\ resp[r].page_hash = "h1"
        /\ screenshot_path[r] = NoPath
        /\ outcome[r].detail = WriteFailMsg

\* C6: no step changes or removes a row of the table, and a step of a query
\* endpoint leaves the table exactly as it was.
C6_AppendOnly ==
    [][/\ \A i \in DOMAIN rows : i \in DOMAIN rows' /\ rows'[i] = rows[i]
       /\ (queryResult' # queryResult => rows' = rows)]_vars

C6_Witness ==
    /\ pc[1] = "done"
    /\ queryResult.code = 200
    /\ Len(queryResult.result) >= 2
    /\ rows = SeedLog

\* C7: when all requests have rendered and saved, they have been answered
\* with pairwise distinct ids of rows of the table, their artifacts are
\* pairwise distinct, and each artifact holds the decoded payload of its
\* own request.
C7_DistinctIdsAndArtifacts ==
    (\A r \in Reqs : RenderedAndSaved(r)) =>
        /\ \A r \in Reqs :
              /\ outcome[r].code = 200
              /\ \E i \in DOMAIN rows : rows[i].id = outcome[r].snapshot_id
              /\ screenshot_path[r] \in DOMAIN files
              /\ files[screenshot_path[r]] = B64Decode(resp[r].screenshot_base64).bytes
        /\ \A r, q \in Reqs :
              r # q => /\ outcome[r].snapshot_id # outcome[q].snapshot_id
                       /\ screenshot_path[r] # screenshot_path[q]

\* C8: a successful save_screenshot creates a file under a name that did not
\* exist, and every file that existed keeps its content.
C8_SaveNeverOverwrites ==
    [][\A r \in Reqs :
          (Completes(r) /\ screenshot_path'[r] # NoPath) =>
                /\ screenshot_path'[r] \notin DOMAIN files
                /\ \A n \in DOMAIN files : n \in DOMAIN files' /\ files'[n] = files[n]]_vars

\* page_url or page_hash is missing or null in the response
AbsentMetadata(rs) == Get(rs.page_url) = Null \/ Get(rs.page_hash) = Null

\* C9: a status-ok response without page_url or page_hash (missing or null)
\* does not make the request fail; once the artifact is written the table
\* holds a row of the request with these fields absent.
C9_AbsentMetadataIsNormal ==
    \A r \in Reqs :
        (Answered(r) /\ ~RenderFailed(resp[r]) /\ AbsentMetadata(resp[r])) =>
            /\ ~playwright_result[r].raised
            /\ RenderedAndSaved(r) =>
                  /\ outcome[r].code = 200
                  /\ \E i \in DOMAIN rows : RowOfRequest(rows[i], r)

\* C10: render_click returns a result only for a response with transport
\* status 200 and status ok; a 200 response with another status raises an
\* error that carries the message of the response.
C10_ResultOnlyWhenOk ==
    \A r \in Reqs :
        Answered(r) =>
            /\ ~playwright_result[r].raised =>
                  /\ resp[r].transport = "http" /\ resp[r].status_code = 200
                  /\ resp[r].status = "ok"
                  /\ playwright_result[r].value = resp[r]
            /\ (resp[r].transport = "http" /\ resp[r].status_code = 200
                    /\ Get(resp[r].status) # "ok") =>
                  /\ playwright_result[r].raised
                  /\ resp[r].message \notin {Missing, Null} =>
                        /\ Len(playwright_result[r].error) = 2
                        /\ playwright_result[r].error[2] = resp[r].message

C10_Witness ==
    \E r \in Reqs :
        /\ Answered(r)
        /\ resp[r].status_code = 200 /\ resp[r].status = "error"
        /\ resp[r].message = "boom" /\ resp[r].screenshot_base64 = "QQ=="
        /\ playwright_result[r].raised
        /\ playwright_result[r].error[2] = "boom"

(***************************************************************************)
(* The query claims, under SpecLog.  The table does not change there, so   *)
(* queryResult is the answer to its call on the current rows.              *)
(***************************************************************************)
Asked(name) == queryResult.query.name = name /\ queryResult.code = 200
Returned == { queryResult.result[i] : i \in DOMAIN queryResult.result }
\* the answer holds exactly the rows of S, each once
ReturnsExactly(S) ==
    /\ Returned = S
    /\ Len(queryResult.result) = Cardinality(S)
DayOf(d) == make_date(d[1], d[2], d[3])

\* C11: for every calendar date D, a day query that is answered returns
\* exactly the rows of the table with
\* D 00:00:00 <= created_at < (D + 1 day) 00:00:00.
C11_DayWindowHalfOpen ==
    Asked("day")
    => ReturnsExactly({ r \in RowsOf(rows) :
                          /\ Midnight(DayOf(queryResult.query.args)) <= r.created_at
                          /\ r.created_at < Midnight(DayOf(queryResult.query.args) + 1) })

\* the day query answered with a row stamped at the first instant of the day
\* while the table holds rows at the last instant before it and at the
\* first instant of the next day, neither returned
C11_Witness ==
    /\ Asked("day")
    /\ queryResult.query.args = <<2024, 3, 15>>
    /\ \E r \in Returned : r.created_at = Midnight(74)
    /\ \E r \in RowsOf(rows) \ Returned : r.created_at = Midnight(75)
    /\ \E r \in RowsOf(rows) \ Returned : r.created_at = Midnight(74) - 1

\* C12: for every start and end, a range query that is answered returns
\* exactly the rows of the table with start <= created_at <= end, both
\* bounds included.
C12_RangeInclusive ==
    Asked("range")
    => ReturnsExactly({ r \in RowsOf(rows) :
                          /\ queryResult.query.args[1] <= r.created_at
                          /\ r.created_at <= queryResult.query.args[2] })

\* the range query returned a row stamped exactly at start and a row stamped
\* exactly at end
C12_Witness ==
    /\ Asked("range")
    /\ queryResult.query.args[1] < queryResult.query.args[2]
    /\ \E r \in Returned : r.created_at = queryResult.query.args[1]
    /\ \E r \in Returned : r.created_at = queryResult.query.args[2]

\* The rollup answers for the counted rows S: one group per (calendar day,
\* origin_url) of S and no other, ordered by day then origin_url, with
\* total_events the number of rows of the group and unique_pages the number
\* of distinct page_hash values of the group that are not absent.
GroupOf(S, g) ==
    { r \in S : DateTrunc(r.created_at) = g.day /\ r.origin_url = g.origin_url }
RollupOf(S) ==
    /\ \A r \in S : \E g \in Returned :
           g.day = DateTrunc(r.created_at) /\ g.origin_url = r.origin_url
    /\ \A g \in Returned :
           /\ GroupOf(S, g) # {}
           /\ g.total_events = Cardinality(GroupOf(S, g))
           /\ g.unique_pages =
                 Cardinality({ h \in { r.page_hash : r \in GroupOf(S, g) } : h # Null })
    /\ \A i, j \in DOMAIN queryResult.result :
           i < j => LET a == queryResult.result[i]
                        b == queryResult.result[j]
                    IN  \/ a.day < b.day
                        \/ a.day = b.day /\ UrlRank(a.origin_url) < UrlRank(b.origin_url)

\* C13 (as stated): an answered rollup counts exactly the rows with
\* now - 60 days <= created_at < now, one group per (day, origin_url) in
\* day then origin_url order, total_events the rows of the group and
\* unique_pages its distinct non-absent page_hash values.
C13_RollupWindowHalfOpen ==
    Asked("daily_stats")
    => RollupOf({ r \in RowsOf(rows) :
                    /\ queryResult.query.args[1] - RollupDays * TicksPerDay <= r.created_at
                    /\ r.created_at < queryResult.query.args[1] })

\* C13 (amended): an answered rollup counts exactly the rows with
\* now - 60 days <= created_at, with no upper bound on created_at, one group
\* per (day, origin_url) in day then origin_url order, total_events the
\* rows of the group and unique_pages its distinct non-absent page_hash
\* values.
C13_RollupWindowFromSixtyDaysAgo ==
    Asked("daily_stats")
    => RollupOf({ r \in RowsOf(rows) :
                    queryResult.query.args[1] - RollupDays * TicksPerDay <= r.created_at })

\* a rollup over a table with a row older than 60 days, not counted, and two
\* rows of one day and origin with the same page_hash, counted as one group
\* of two events and one page
C13_Witness ==
    /\ Asked("daily_stats")
    /\ \E r \in RowsOf(rows) :
          /\ r.created_at < queryResult.query.args[1] - RollupDays * TicksPerDay
          /\ \A g \in Returned : GroupOf({r}, g) = {}
    /\ \E g \in Returned : g.total_events = 2 /\ g.unique_pages = 1

\* a rollup asked at the very instant a row is stamped with counts that row
C13_RowAtNowCounted ==
    /\ Asked("daily_stats")
    /\ \E r \in RowsOf(rows) :
          /\ r.created_at = queryResult.query.args[1]
          /\ \E g \in Returned : GroupOf({r}, g) # {}

(***************************************************************************)
(* Failure handling of create_snapshot, under Spec.                        *)
(***************************************************************************)
\* C14: a request whose render call failed is answered 500 with the error
\* render_click raised; one whose artifact write failed is answered 500 with
\* the error save_screenshot raised; and a request is answered with success
\* only if it rendered, saved, and the table holds its row under the id of
\* the answer.
C14_FailuresSurfaced ==
    \A r \in Reqs :
        pc[r] = "done" =>
            /\ outcome[r].code \in {200, 500}
            /\ playwright_result[r].raised =>
                  /\ outcome[r].code = 500
                  /\ outcome[r].detail = playwright_result[r].error
                  /\ outcome[r].detail # NoError
            /\ (~playwright_result[r].raised /\ screenshot_path[r] = NoPath) =>
                  /\ outcome[r].code = 500
                  /\ outcome[r].detail \in StoreFailureMsgs
            /\ outcome[r].code = 200 =>
                  /\ RenderedAndSaved(r)
                  /\ \E i \in DOMAIN rows : /\ RowOfRequest(rows[i], r)
                                            /\ rows[i].id = outcome[r].snapshot_id

\* one request failed at the artifact write and was answered with the
\* error of open(); another rendered and saved, its insert was not carried
\* out, and it was answered with an error
C14_Witness ==
    \E r, q \in Reqs :
        /\ pc[r] = "done" /\ ~playwright_result[r].raised
        /\ screenshot_path[r] = NoPath
        /\ outcome[r] = Http500(OpenFailMsg)
        /\ RenderedAndSaved(q)
        /\ \A i \in DOMAIN rows : ~RowOfRequest(rows[i], q)
        /\ outcome[q].code = 500

\* C15: when a request has written its artifact and then ends in error, the
\* table is unchanged, the artifact is in the directory with the decoded
\* payload of the request and no row refers to it; no later step removes a
\* file from the directory.
C15_NoRollback ==
    [][/\ \A r \in Reqs :
            (Completes(r) /\ screenshot_path'[r] # NoPath /\ outcome'[r].code # 200) =>
                /\ rows' = rows
                /\ screenshot_path'[r] \in DOMAIN files'
                /\ files'[screenshot_path'[r]] = B64Decode(resp[r].screenshot_base64).bytes
                /\ \A i \in DOMAIN rows' : rows'[i].screenshot_path # screenshot_path'[r]
       /\ DOMAIN files \subseteq DOMAIN files']_vars

\* a request that rendered and saved was answered with an error; its file is
\* in the directory and no row of the table refers to it
C15_Witness ==
    \E r \in Reqs :
        /\ RenderedAndSaved(r)
        /\ outcome[r].code = 500
        /\ resp[r].screenshot_base64 = "QQ=="
        /\ files[screenshot_path[r]] = "A"
        /\ \A i \in DOMAIN rows : rows[i].screenshot_path # screenshot_path[r]

\* s is an initial part of t
IsPrefix(s, t) == Len(s) <= Len(t) /\ \A i \in DOMAIN s : s[i] = t[i]

\* C16: the downstream calls of a request are an initial part of render,
\* save, insert (each at most once, in that order); a request whose render
\* call failed has issued the render call only, and one whose artifact write
\* failed has issued no insert.
C16_NoRetry ==
    \A r \in Reqs :
        /\ IsPrefix(calls[r], <<"render", "save", "insert">>)
        /\ (pc[r] = "done" /\ playwright_result[r].raised) => calls[r] = <<"render">>
        /\ (pc[r] = "done" /\ ~playwright_result[r].raised /\ screenshot_path[r] = NoPath)
              => calls[r] = <<"render", "save">>

\* a request ended after a failed render call, having issued that call only;
\* another ended after a failed artifact write, having issued render and save
C16_Witness ==
    \E r, q \in Reqs :
        /\ pc[r] = "done" /\ playwright_result[r].raised /\ calls[r] = <<"render">>
        /\ pc[q] = "done" /\ ~playwright_result[q].raised
        /\ screenshot_path[q] = NoPath /\ calls[q] = <<"render", "save">>

\* request r has a step to take
Unfinished(r) == pc[r] # "done"

\* C18: while a request is at its render call or at its artifact write,
\* every other unfinished request is able to take its next step.
C18_RequestsIndependent ==
    \A r, q \in Reqs :
        (r # q /\ pc[r] \in {"render", "saving"} /\ Unfinished(q)) => ENABLED LoopStep(q)

\* While a request waits for the render service, every other unfinished
\* request is able to take its next step.
RenderWaitDoesNotBlock ==
    \A r, q \in Reqs :
        (r # q /\ pc[r] = "render" /\ LoopFree /\ Unfinished(q)) => ENABLED LoopStep(q)

\* C19: never more than DB_POOL_MAX_SIZE connections are lent; a caller
\* never waits longer than PoolTimeout seconds; a query that finishes, with
\* a result or with an error, has given its connection back; and a caller
\* that waits for a connection eventually holds one or has failed.
C19_BoundedPool ==
    /\ [](Borrowed <= DB_POOL_MAX_SIZE /\ waited <= PoolTimeout)
    /\ [][(caller = "held" /\ caller' # "held") =>
              /\ Borrowed' = Borrowed - 1
              /\ queryResult'.code \in {200, 500}]_vars
    /\ (caller = "waiting" ~> caller # "waiting")

\* the pool is exhausted by the other callers and the caller has waited the
\* whole timeout
C19_Witness ==
    /\ caller = "waiting"
    /\ others = DB_POOL_MAX_SIZE
    /\ waited = PoolTimeout

\* the caller's query failed, its connection is back and the pool is in use
C19_ReturnedOnError ==
    /\ caller = "idle"
    /\ queryResult.code = 500
    /\ others = DB_POOL_MAX_SIZE - 1

\* a sequence of rows in origin_url order and, within one origin_url, in
\* created_at order
SortedByOriginThenCreatedAt(res) ==
    \A i, j \in DOMAIN res :
        i < j => \/ UrlRank(res[i].origin_url) < UrlRank(res[j].origin_url)
                 \/ /\ res[i].origin_url = res[j].origin_url
                    /\ res[i].created_at <= res[j].created_at
SortedByCreatedAt(res) ==
    \A i, j \in DOMAIN res : i < j => res[i].created_at <= res[j].created_at

\* C20: the day, month and range queries answer with rows sorted by
\* origin_url ascending and, within one origin_url, by created_at ascending;
\* the yesterday query answers with rows sorted by created_at ascending.
C20_DetailQueriesSorted ==
    /\ (Asked("day") \/ Asked("month") \/ Asked("range"))
          => SortedByOriginThenCreatedAt(queryResult.result)
    /\ Asked("yesterday") => SortedByCreatedAt(queryResult.result)

\* a yesterday answer in created_at order whose origin_urls are out of order
\* (created_at is its only key)
C20_Witness ==
    /\ Asked("yesterday")
    /\ Len(queryResult.result) >= 2
    /\ ~SortedByOriginThenCreatedAt(queryResult.result)

\* a month answer of several origin_urls, the later origin_url holding the
\* earlier row
C20_MonthWitness ==
    /\ Asked("month")
    /\ \E i, j \in DOMAIN queryResult.result :
          /\ i < j
          /\ queryResult.result[i].origin_url # queryResult.result[j].origin_url
          /\ queryResult.result[i].created_at > queryResult.result[j].created_at

(***************************************************************************)
(* Frame and termination of create_snapshot.                               *)
(***************************************************************************)
\* the payloads of the model that are base64 text
DecodablePayloads == {"QQ==", "Qg==", ""}

\* C21: when the render call returned a result whose screenshot_base64 is
\* missing, null or not base64 text, the step that completes the request
\* leaves the directory and the table exactly as they were (no file is
\* created, under any name), and the request is answered with an error.
C21_UndecodablePayloadChangesNothing ==
    [][\A r \in Reqs :
          (Completes(r) /\ ~playwright_result[r].raised
                /\ Get(resp[r].screenshot_base64) \notin DecodablePayloads) =>
                /\ files' = files
                /\ rows' = rows
                /\ screenshot_path'[r] = NoPath
                /\ outcome'[r].code = 500
                /\ outcome'[r].detail \in {NoneTypeMsg, PaddingMsg}]_vars

\* a status-ok response without screenshot_base64 was answered with the
\* error of b64decode(None); the directory holds the files it started with
C21_Witness ==
    \E r \in Reqs :
        /\ pc[r] = "done" /\ ~playwright_result[r].raised
        /\ resp[r].status = "ok" /\ resp[r].screenshot_base64 = Missing
        /\ outcome[r] = Http500(NoneTypeMsg)
        /\ files = SeedFiles /\ rows = SeedLog

\* a response whose payload is not base64 text was answered with the error
\* of the decoder
C21_PaddingWitness ==
    \E r \in Reqs :
        /\ pc[r] = "done" /\ ~playwright_result[r].raised
        /\ resp[r].screenshot_base64 = "QQ"
        /\ outcome[r] = Http500(PaddingMsg)
        /\ files = SeedFiles

\* C23: a request that has been received is eventually answered; it is
\* answered exactly when its handler has ended; the answer is either the
\* success response or the 500 response with a message; and an answer, once
\* given, does not change.
C23_TerminatesWithOneOutcome ==
    /\ \A r \in Reqs : (pc[r] = "render") ~> (pc[r] = "done" /\ outcome[r] # NoResponse)
    /\ [](\A r \in Reqs :
            /\ (pc[r] = "done") <=> (outcome[r] # NoResponse)
            /\ outcome[r] # NoResponse =>
                  \/ outcome[r] = Http200(outcome[r].snapshot_id)
                  \/ /\ outcome[r].code = 500
                     /\ outcome[r].status = ""
                     /\ outcome[r].detail # NoError)
    /\ [][\A r \in Reqs : outcome[r] # NoResponse => outcome'[r] = outcome[r]]_vars

\* a request whose render call timed out has ended with its one error
\* response, which carries the message of the timeout
C23_Witness ==
    \E r \in Reqs :
        /\ pc[r] = "done"
        /\ resp[r].transport = "timeout"
        /\ outcome[r] = Http500(TimeoutMsg)

\* a request that rendered and saved has ended with its one error response
C23_SavedWitness ==
    \E r \in Reqs :
        /\ RenderedAndSaved(r)
        /\ outcome[r] = Http500(ValidationMsg)

====
